---- MODULE Spec2Model ----
(***************************************************************************)
(* Model of src/code/agent.py: the tabular agents ValueIterationSolver and *)
(* TdLearner.                                                              *)
(*                                                                         *)
(* Python floats are modelled as exact rationals n/d (d > 0, lowest terms) *)
(* extended with the IEEE-754 specials -inf, +inf and nan, which the code  *)
(* produces itself (best_val = -float('inf')).  Every input of the model   *)
(* is a small integer or a dyadic rational, for which float arithmetic is  *)
(* exact, except gamma = 9/10 and tol = 1/1000 of the two-state scenario.  *)
(***************************************************************************)
EXTENDS Integers, Sequences, FiniteSets, TLC

(***************************************************************************)
(* Bounds of the model.                                                    *)
(***************************************************************************)
MaxStates == 2          \* MDPs have 1..MaxStates states
MaxTotalActions == 3    \* actions of an MDP, summed over its states
MaxMagnitude == 4       \* a sweep starts only while every |V[s]| <= this
MaxDenominator == 4096  \* ... and every denominator of V is <= this
MaxSweeps == 3          \* the sweep counter saturates here
MaxTdActions == 2       \* tasks of the TD learner have 0..MaxTdActions actions
MaxCalls == 6           \* get_action and learn calls made on a TD learner

(***************************************************************************)
(* Float arithmetic.                                                       *)
(***************************************************************************)
RECURSIVE GCD(_, _)
GCD(a, b) == IF b = 0 THEN a ELSE GCD(b, a % b)

AbsInt(i) == IF i < 0 THEN -i ELSE i

\* The float n/d, in lowest terms (d > 0).
Rat(n, d) ==
    LET g == GCD(AbsInt(n), d)
    IN  [k |-> "fin", n |-> n \div g, d |-> d \div g]

NINF == [k |-> "ninf", n |-> 0, d |-> 1]
PINF == [k |-> "pinf", n |-> 0, d |-> 1]
NAN == [k |-> "nan", n |-> 0, d |-> 1]
Zero == Rat(0, 1)
One == Rat(1, 1)
Half == Rat(1, 2)

IsFin(x) == x.k = "fin"
IsInf(x) == x.k \in {"ninf", "pinf"}

\* -1, 0 or 1: the sign of a float that is not nan.
Sign(x) ==
    CASE x.k = "ninf" -> -1
      [] x.k = "pinf" -> 1
      [] OTHER -> IF x.n < 0 THEN -1 ELSE IF x.n > 0 THEN 1 ELSE 0

LCM(a, b) == (a \div GCD(a, b)) * b

\* x + y
FAdd(x, y) ==
    CASE x.k = "nan" \/ y.k = "nan" -> NAN
      [] IsInf(x) /\ IsInf(y) -> IF x.k = y.k THEN x ELSE NAN
      [] IsInf(x) -> x
      [] IsInf(y) -> y
      [] OTHER ->
            LET l == LCM(x.d, y.d)
            IN  Rat(x.n * (l \div x.d) + y.n * (l \div y.d), l)

\* -x
FNeg(x) ==
    CASE x.k = "nan" -> NAN
      [] x.k = "ninf" -> PINF
      [] x.k = "pinf" -> NINF
      [] OTHER -> Rat(-x.n, x.d)

\* x - y
FSub(x, y) == FAdd(x, FNeg(y))

\* x * y
FMul(x, y) ==
    CASE x.k = "nan" \/ y.k = "nan" -> NAN
      [] IsInf(x) \/ IsInf(y) ->
            IF Sign(x) * Sign(y) = 0 THEN NAN
            ELSE IF Sign(x) * Sign(y) > 0 THEN PINF ELSE NINF
      [] OTHER -> Rat(x.n * y.n, x.d * y.d)

\* abs(x)
FAbs(x) ==
    CASE x.k = "nan" -> NAN
      [] IsInf(x) -> PINF
      [] OTHER -> Rat(AbsInt(x.n), x.d)

\* x < y (False when either is nan)
FLt(x, y) ==
    CASE x.k = "nan" \/ y.k = "nan" -> FALSE
      [] x.k = "pinf" \/ y.k = "ninf" -> FALSE
      [] x.k = "ninf" \/ y.k = "pinf" -> TRUE
      [] OTHER ->
            LET l == LCM(x.d, y.d)
            IN  x.n * (l \div x.d) < y.n * (l \div y.d)

\* x > y (False when either is nan)
FGt(x, y) == FLt(y, x)

\* x == y (False when either is nan)
FEq(x, y) == x.k # "nan" /\ y.k # "nan" /\ x = y

(***************************************************************************)
(* State.                                                                  *)
(***************************************************************************)
VARIABLES
    mdp,        \* ValueIterationSolver.mdp: the environment (with its gamma)
    tol,        \* ValueIterationSolver.tol
    V,          \* ValueIterationSolver.V: state index -> float
    pc,         \* where the solver is: "new" (not constructed), "idle"
                \* (constructed), "sweep" (inside learn's while loop), "done"
                \* (learn returned)
    state,      \* the loop variable of learn's for loop
    max_diff,   \* the local max_diff of learn
    sweeps,     \* sweeps begun by the running learn call (saturating)
    V_start,    \* V when the running learn call began
    V_sweep,    \* V when the sweep in progress began
    calls,      \* learn calls that have returned (saturating at 2)
    ret         \* the outcome of the ValueIterationSolver.get_action call
                \* the caller has not taken yet: its argument, the action
                \* returned and the error raised

VARIABLES
    task,       \* TdLearner.task: the environment
    update,     \* TdLearner.update
    epsilon,    \* TdLearner.epsilon
    alpha,      \* TdLearner.alpha
    Q,          \* TdLearner.Q: state index -> sequence of floats (entry a + 1
                \* is Q[s][a])
    s0, a0, r, s1, a1,  \* the streaming buffer of TdLearner
    td_pc,      \* "new" (not constructed), "ready" (constructed), "failed"
                \* (the constructor raised)
    last,       \* the last call on the learner: its name, arguments, the
                \* value returned and the error raised
    prior,      \* the name of the call before the last
    attrs,      \* the attributes __init__ has assigned
    asked,      \* the last two get_action calls that returned: the state
                \* asked and the action returned, of each
    Q_prev,     \* Q before the last call
    buf_prev,   \* <<s0, a0, r, s1, a1>> before the last call
    passed,     \* the rewards passed to the last two learn calls, recorded
                \* while the calls alternate
    n_calls,    \* get_action and learn calls made
    alternating \* the calls so far were get_action, learn, get_action, ...
                \* and none of them raised

solverVars ==
    <<mdp, tol, V, pc, state, max_diff, sweeps, V_start, V_sweep, calls, ret>>
tdVars ==
    <<task, update, epsilon, alpha, Q, s0, a0, r, s1, a1, td_pc, last, prior,
      attrs, asked, Q_prev, buf_prev, passed, n_calls, alternating>>
vars == <<solverVars, tdVars>>

\* Python's None where a state or action index may stand: indices are >= 0.
None == -1

(***************************************************************************)
(* The environment.  An MDP is its number of states, for every state the   *)
(* sequence of the kinds of its allowed actions (action a is entry a + 1)  *)
(* and gamma.  The kinds of action of state s of an n-state MDP:           *)
(*   "stay0"  to s itself, reward 0        "stay1"  to s itself, reward 1  *)
(*   "next1"  to (s + 1) % n, reward 1                                     *)
(*   "split"  to state 0 or to state n - 1 with probability 1/2 each,      *)
(*            reward 1 on reaching state n - 1 and 0 otherwise             *)
(***************************************************************************)
ActionKinds == {"stay0", "stay1", "next1", "split"}

Gammas == {Zero, Half, One}
Tols == {Rat(1, 8)}

\* The entries of kinds whose owner is s, in order.
RECURSIVE ActionsOf(_, _, _, _)
ActionsOf(s, owners, kinds, i) ==
    IF i > Len(owners) THEN << >>
    ELSE (IF owners[i] = s THEN <<kinds[i]>> ELSE << >>)
             \o ActionsOf(s, owners, kinds, i + 1)

\* The MDP of n states whose i-th action, of kind kinds[i], belongs to state
\* owners[i].
MakeMDP(n, owners, kinds, g) ==
    [num_states |-> n,
     allowed |-> [s \in 0..(n - 1) |-> ActionsOf(s, owners, kinds, 1)],
     gamma |-> g]

\* The two-state scenario: state 0 has one action, to state 1 with reward 1;
\* state 1 is terminal; gamma = 0.9 (and tol = 1e-3).
ChainMDP == MakeMDP(2, <<0>>, <<"next1">>, Rat(9, 10))
ChainTol == Rat(1, 1000)

\* The one-state scenario: the single action loops back with reward 1,
\* gamma = 1 (and tol = 1).
OneLoopMDP == MakeMDP(1, <<0>>, <<"stay1">>, One)
OneLoopTol == One

get_num_states(m) == m.num_states

get_allowed_actions(m, s) == [i \in 1..Len(m.allowed[s]) |-> i - 1]

next_state_distribution(m, s, a) ==
    LET kind == m.allowed[s][a + 1]
    IN  CASE kind \in {"stay0", "stay1"} -> << <<s, One>> >>
          [] kind = "next1" -> << <<(s + 1) % m.num_states, One>> >>
          [] kind = "split" -> << <<0, Half>>, <<m.num_states - 1, Half>> >>

get_reward(m, s, a, ns) ==
    LET kind == m.allowed[s][a + 1]
    IN  CASE kind = "stay0" -> Zero
          [] kind \in {"stay1", "next1"} -> One
          [] kind = "split" -> IF ns = m.num_states - 1 THEN One ELSE Zero

(***************************************************************************)
(* ValueIterationSolver.                                                   *)
(***************************************************************************)
\* __init__: V = [1. for s in xrange(num_states)]
InitV(m) == [s \in 0..(get_num_states(m) - 1) |-> One]

\* get_action, lines 35-37: val = 0.; val += prob * gamma * V[ns]
RECURSIVE LookaheadFrom(_, _, _, _, _)
LookaheadFrom(m, Vv, ns_dist, i, val) ==
    IF i > Len(ns_dist) THEN val
    ELSE LookaheadFrom(m, Vv, ns_dist, i + 1,
             FAdd(val, FMul(FMul(ns_dist[i][2], m.gamma), Vv[ns_dist[i][1]])))

Lookahead(m, Vv, s, a) ==
    LookaheadFrom(m, Vv, next_state_distribution(m, s, a), 1, Zero)

\* GreedyFrom without line 40: a greater val does not raise best_val.
RECURSIVE GreedyFromStale(_, _, _, _, _, _, _)
GreedyFromStale(m, Vv, s, poss_actions, flips, i, best) ==
    IF i > Len(poss_actions) THEN best
    ELSE LET action == poss_actions[i]
             val == Lookahead(m, Vv, s, action)
             next ==
                 IF FGt(val, best[2]) THEN <<action, best[2]>>
                 ELSE IF FEq(val, best[2]) /\ flips[i] THEN <<action, val>>
                 ELSE best
         IN  GreedyFromStale(m, Vv, s, poss_actions, flips, i + 1, next)

\* get_action, lines 32-44: the loop over poss_actions from its i-th entry on,
\* best = <<best_action, best_val>>; flips[i] is random.random() < 0.5 in
\* the i-th iteration.
RECURSIVE GreedyFrom(_, _, _, _, _, _, _)
GreedyFrom(m, Vv, s, poss_actions, flips, i, best) ==
    IF i > Len(poss_actions) THEN best
    ELSE LET action == poss_actions[i]
             val == Lookahead(m, Vv, s, action)
             next ==
                 IF FGt(val, best[2]) THEN <<action, val>>
                 ELSE IF FEq(val, best[2]) /\ flips[i] THEN <<action, val>>
                 ELSE best
         IN  GreedyFrom(m, Vv, s, poss_actions, flips, i + 1, next)

NoError == "none"
NoCall == [state |-> None, action |-> None, error |-> NoError]

\* get_action(state): the action returned (None when the loop never assigns
\* best_action); no statement of it raises.
SolverGetAction(m, Vv, s, flips) ==
    [action |-> GreedyFrom(m, Vv, s, get_allowed_actions(m, s), flips, 1,
                           <<None, NINF>>)[1],
     error |-> NoError]

\* BackupFrom without the discount: val += prob * (reward + V[ns])
RECURSIVE BackupFromUndiscounted(_, _, _, _, _, _, _)
BackupFromUndiscounted(m, Vv, s, a, ns_dist, i, val) ==
    IF i > Len(ns_dist) THEN val
    ELSE LET ns == ns_dist[i][1]
             prob == ns_dist[i][2]
         IN  BackupFromUndiscounted(m, Vv, s, a, ns_dist, i + 1,
                 FAdd(val, FMul(prob, FAdd(get_reward(m, s, a, ns), Vv[ns]))))

\* learn, lines 65-69: val = 0.; val += prob * (reward + gamma * V[ns])
RECURSIVE BackupFrom(_, _, _, _, _, _, _)
BackupFrom(m, Vv, s, a, ns_dist, i, val) ==
    IF i > Len(ns_dist) THEN val
    ELSE LET ns == ns_dist[i][1]
             prob == ns_dist[i][2]
         IN  BackupFrom(m, Vv, s, a, ns_dist, i + 1,
                 FAdd(val, FMul(prob, FAdd(get_reward(m, s, a, ns),
                                           FMul(m.gamma, Vv[ns])))))

\* The backup with the sum of get_action: val += prob * gamma * V[ns]
BackupNoReward(m, Vv, s, a) == Lookahead(m, Vv, s, a)

\* learn, lines 65-69 for one action: the val of line 71
Backup(m, Vv, s, a) ==
    BackupFrom(m, Vv, s, a, next_state_distribution(m, s, a), 1, Zero)

\* learn, lines 63-72: best_val = -inf; for action in poss_actions: ...
RECURSIVE BestValFrom(_, _, _, _, _, _)
BestValFrom(m, Vv, s, poss_actions, i, best_val) ==
    IF i > Len(poss_actions) THEN best_val
    ELSE LET val == Backup(m, Vv, s, poss_actions[i])
         IN  BestValFrom(m, Vv, s, poss_actions, i + 1,
                 IF FGt(val, best_val) THEN val ELSE best_val)

\* learn, lines 60-61: a state without actions gets V[state] = 0.
PinTerminal(m, Vv, s) ==
    IF Len(get_allowed_actions(m, s)) = 0 THEN [Vv EXCEPT ![s] = Zero] ELSE Vv

\* learn, lines 63-72 for one state, on the table left by lines 60-61
BestVal(m, Vv, s) ==
    BestValFrom(m, PinTerminal(m, Vv, s), s, get_allowed_actions(m, s), 1, NINF)

\* Diff without abs: diff = V[state] - best_val
DiffSigned(old, best_val) == FSub(old, best_val)

\* learn, line 74: diff = abs(V[state] - best_val)
Diff(old, best_val) == FAbs(FSub(old, best_val))

\* A synchronous sweep: the backup of s reads the values of the sweep before
BackupStateJacobi(m, Vv, s) ==
    [PinTerminal(m, Vv, s) EXCEPT ![s] = BestVal(m, [V_sweep EXCEPT ![s] = Vv[s]], s)]

\* learn, lines 57-75 for one state: the table afterwards
BackupState(m, Vv, s) == [PinTerminal(m, Vv, s) EXCEPT ![s] = BestVal(m, Vv, s)]

\* learn, lines 57-74 for one state: the diff of line 74
StateDiff(m, Vv, s) == Diff(PinTerminal(m, Vv, s)[s], BackupState(m, Vv, s)[s])

\* learn, lines 77-78
NewMaxDiff(diff, md) == IF FGt(diff, md) THEN diff ELSE md

\* The loop ending when max_diff <= tol
ConvergedLe(md, t) == FLt(md, t) \/ FEq(md, t)

\* learn, line 80: the loop ends when max_diff < tol
Converged(md, t) == FLt(md, t)

\* Every value of the table is small enough for another sweep of the model.
Representable(Vv) ==
    \A s \in DOMAIN Vv :
        IsFin(Vv[s]) =>
            /\ AbsInt(Vv[s].n) <= MaxMagnitude * Vv[s].d
            /\ Vv[s].d <= MaxDenominator

Min(a, b) == IF a < b THEN a ELSE b

(***************************************************************************)
(* TdLearner.                                                              *)
(*                                                                         *)
(* The task.  The constructor passes task.get_allowed_actions(s) to xrange *)
(* (line 109): that call has to yield an integer, the number of actions of *)
(* s, and a task of kind "count" does.  A task of kind "sequence" yields   *)
(* the sequence of the allowed actions of s, as the environment of the     *)
(* solver does (lines 27, 32 and 60), and xrange raises TypeError.         *)
(* get_action calls task.get_allowed_actions() without a state (line 124)  *)
(* and draws from the sequence it yields: all the actions of the task.     *)
(***************************************************************************)
TaskKinds == {"count", "sequence"}
Updates == {"q_learning", "sarsa", "expected_sarsa"}
Epsilons == {Zero, Half}
Alphas == {Zero, Half}
TdGammas == {Zero, Half}
Rewards == {Zero, One}

\* A TD update involves two states, s0 and s1: tasks have one or two states.
TdStateCounts == {1, 2}

\* The tasks: state 0 allows every action of the task, a further state allows
\* the first counts[s] of them.
Tasks ==
    UNION { { [kind |-> kd, num_states |-> n, num_actions |-> na,
               counts |-> c, gamma |-> g] :
                kd \in TaskKinds,
                c \in { f \in [0..(n - 1) -> 0..na] : f[0] = na },
                g \in TdGammas } :
            n \in TdStateCounts, na \in 0..MaxTdActions }

NoTask ==
    [kind |-> "count", num_states |-> 1, num_actions |-> 0,
     counts |-> [s \in 0..0 |-> 0], gamma |-> Zero]

\* task.get_allowed_actions(), line 124
task_allowed_actions(t) == [i \in 1..t.num_actions |-> i - 1]

\* A float slot that holds None.
NoneF == [k |-> "none", n |-> 0, d |-> 1]

\* The result of a call: the error raised (NoError when it returned), and
\* what it returned or left behind.
Raised(e) == [error |-> e, action |-> None]
Returned(a) == [error |-> NoError, action |-> a]

\* The attributes __init__ has assigned when it reaches line 104, then line 109,
\* then its end.
TaskAttrs == {"task", "num_states", "num_actions", "gamma", "epsilon", "alpha"}
CheckedAttrs == TaskAttrs \cup {"update"}
AllAttrs == CheckedAttrs \cup {"Q", "s0", "a0", "r", "s1", "a1"}

\* __init__ without the check of lines 104-105
TdConstructQUnchecked(t, upd) ==
    IF t.kind # "count"
    THEN [error |-> "TypeError", Q |-> << >>, attrs |-> CheckedAttrs]
    ELSE [error |-> NoError,
          Q |-> [s \in 0..(t.num_states - 1) |-> [a \in 1..t.counts[s] |-> One]],
          attrs |-> AllAttrs]

\* __init__ with rows of num_actions entries: xrange(self.num_actions)
TdConstructQUniform(t, upd) ==
    IF upd \notin {"q_learning", "sarsa"}
    THEN [error |-> "NotImplementedError", Q |-> << >>, attrs |-> TaskAttrs]
    ELSE IF t.kind # "count"
    THEN [error |-> "TypeError", Q |-> << >>, attrs |-> CheckedAttrs]
    ELSE [error |-> NoError,
          Q |-> [s \in 0..(t.num_states - 1) |-> [a \in 1..t.num_actions |-> One]],
          attrs |-> AllAttrs]

\* __init__, lines 92-116: the error raised, the table built and the
\* attributes assigned
TdConstructQ(t, upd) ==
    IF upd \notin {"q_learning", "sarsa"}
    THEN [error |-> "NotImplementedError", Q |-> << >>, attrs |-> TaskAttrs]
    ELSE IF t.kind # "count"
    THEN [error |-> "TypeError", Q |-> << >>, attrs |-> CheckedAttrs]
    ELSE [error |-> NoError,
          Q |-> [s \in 0..(t.num_states - 1) |-> [a \in 1..t.counts[s] |-> One]],
          attrs |-> AllAttrs]

\* max(q_vals) over entries i.. of a non-empty row
RECURSIVE MaxFrom(_, _, _)
MaxFrom(q_vals, i, best) ==
    IF i > Len(q_vals) THEN best
    ELSE MaxFrom(q_vals, i + 1, IF FGt(q_vals[i], best) THEN q_vals[i] ELSE best)

\* The last position holding v, counted from 0
IndexFromLast(q_vals, v, i) ==
    (CHOOSE j \in i..Len(q_vals) :
        FEq(q_vals[j], v) /\ \A k \in (j + 1)..Len(q_vals) : ~FEq(q_vals[k], v)) - 1

\* q_vals.index(v): the first position holding v, counted from 0
RECURSIVE IndexFrom(_, _, _)
IndexFrom(q_vals, v, i) ==
    IF FEq(q_vals[i], v) THEN i - 1 ELSE IndexFrom(q_vals, v, i + 1)

\* _greedy_action(state), lines 118-121
GreedyAction(Qv, s) ==
    IF Len(Qv[s]) = 0 THEN Raised("ValueError")
    ELSE Returned(IndexFrom(Qv[s], MaxFrom(Qv[s], 2, Qv[s][1]), 1))

\* get_action(state), lines 124-130: the outcomes the draws of random allow
TdGetActionOutcomes(t, eps, Qv, s) ==
    LET poss_actions == task_allowed_actions(t)
        explore ==
            IF Len(poss_actions) = 0 THEN { Raised("IndexError") }
            ELSE { Returned(poss_actions[i]) : i \in 1..Len(poss_actions) }
    IN  (IF FLt(Zero, eps) THEN explore ELSE {})
            \cup (IF FLt(eps, One) THEN { GreedyAction(Qv, s) } ELSE {})

\* get_action overwriting the current slots without saving them in s0, a0
ShiftBufferNoShift(b, s, action) == <<b[1], b[2], b[3], s, action>>

\* get_action(state), lines 132-135: the buffer <<s0, a0, r, s1, a1>> shifted
ShiftBuffer(b, s, action) == <<b[4], b[5], b[3], s, action>>

\* _td_update assigning the new value to Q[s1][a1]
TdUpdateBootstrapEntry(Qv, g, al, b0, c0, rw, b1, c1) ==
    IF c1 >= Len(Qv[b1]) THEN [error |-> "IndexError", Q |-> Qv]
    ELSE IF rw = NoneF THEN [error |-> "TypeError", Q |-> Qv]
    ELSE IF c0 >= Len(Qv[b0]) THEN [error |-> "IndexError", Q |-> Qv]
    ELSE LET td_error ==
                 FSub(FAdd(rw, FMul(g, Qv[b1][c1 + 1])), Qv[b0][c0 + 1])
         IN  [error |-> NoError,
              Q |-> [Qv EXCEPT ![b1][c1 + 1] =
                         FAdd(Qv[b0][c0 + 1], FMul(al, td_error))]]

\* _td_update, lines 155-158: the error raised and the table afterwards
TdUpdate(Qv, g, al, b0, c0, rw, b1, c1) ==
    IF c1 >= Len(Qv[b1]) THEN [error |-> "IndexError", Q |-> Qv]
    ELSE IF rw = NoneF THEN [error |-> "TypeError", Q |-> Qv]
    ELSE IF c0 >= Len(Qv[b0]) THEN [error |-> "IndexError", Q |-> Qv]
    ELSE LET td_error ==
                 FSub(FAdd(rw, FMul(g, Qv[b1][c1 + 1])), Qv[b0][c0 + 1])
         IN  [error |-> NoError,
              Q |-> [Qv EXCEPT ![b0][c0 + 1] =
                         FAdd(Qv[b0][c0 + 1], FMul(al, td_error))]]

\* learn with the greedy bootstrap action under every rule
NextActionGreedy(upd, Qv, b) ==
    IF upd \in {"q_learning", "sarsa"} THEN GreedyAction(Qv, b[4])
    ELSE Raised("NotImplementedError")

\* learn, lines 141-147: the bootstrap action
NextAction(upd, Qv, b) ==
    IF upd = "q_learning" THEN GreedyAction(Qv, b[4])
    ELSE IF upd = "sarsa" THEN Returned(b[5])
    ELSE Raised("NotImplementedError")

\* learn handing its own argument to _td_update
UpdateRewardCurrent(b, reward) == reward

\* The reward learn hands to _td_update, line 149: self.r
UpdateReward(b, reward) == b[3]

\* learn that applies no update when the call before it was a learn call:
\* the transition of the buffer is consumed once
TdLearnOnce(upd, g, al, Qv, b, reward) ==
    IF b[1] = None \/ last.op = "learn"
    THEN [error |-> NoError, Q |-> Qv, buf |-> [b EXCEPT ![3] = reward]]
    ELSE LET next_action == NextAction(upd, Qv, b)
             u == TdUpdate(Qv, g, al, b[1], b[2], UpdateReward(b, reward),
                           b[4], next_action.action)
         IN  IF next_action.error # NoError
             THEN [error |-> next_action.error, Q |-> Qv, buf |-> b]
             ELSE IF u.error # NoError
             THEN [error |-> u.error, Q |-> Qv, buf |-> b]
             ELSE [error |-> NoError, Q |-> u.Q, buf |-> [b EXCEPT ![3] = reward]]

\* learn(reward), lines 140-153: the error raised, the table and the buffer
\* afterwards
TdLearn(upd, g, al, Qv, b, reward) ==
    IF b[1] = None
    THEN [error |-> NoError, Q |-> Qv, buf |-> [b EXCEPT ![3] = reward]]
    ELSE LET next_action == NextAction(upd, Qv, b)
             u == TdUpdate(Qv, g, al, b[1], b[2], UpdateReward(b, reward),
                           b[4], next_action.action)
         IN  IF next_action.error # NoError
             THEN [error |-> next_action.error, Q |-> Qv, buf |-> b]
             ELSE IF u.error # NoError
             THEN [error |-> u.error, Q |-> Qv, buf |-> b]
             ELSE [error |-> NoError, Q |-> u.Q, buf |-> [b EXCEPT ![3] = reward]]

\* No get_action call: neither a state nor an action.
NoAsk == <<None, None>>

NoCallYet ==
    [op |-> "none", state |-> None, reward |-> NoneF, action |-> None,
     error |-> NoError]

(***************************************************************************)
(* Before construction there is no solver: pc = "new".                     *)
(***************************************************************************)
Init ==
    /\ mdp = MakeMDP(1, << >>, << >>, Zero)
    /\ tol = Zero
    /\ V = InitV(mdp)
    /\ pc = "new"
    /\ state = 0
    /\ max_diff = Zero
    /\ sweeps = 0
    /\ V_start = V
    /\ V_sweep = V
    /\ calls = 0
    /\ ret = NoCall
    /\ task = NoTask
    /\ update = "q_learning"
    /\ epsilon = Zero
    /\ alpha = Zero
    /\ Q = << >>
    /\ s0 = None /\ a0 = None /\ r = NoneF /\ s1 = None /\ a1 = None
    /\ td_pc = "new"
    /\ last = NoCallYet
    /\ prior = "none"
    /\ attrs = {}
    /\ asked = <<NoAsk, NoAsk>>
    /\ Q_prev = << >>
    /\ buf_prev = <<None, None, NoneF, None, None>>
    /\ passed = <<NoneF, NoneF>>
    /\ n_calls = 0
    /\ alternating = TRUE

\* ValueIterationSolver(mdp, tol), lines 16-23: an MDP of the family with a
\* tolerance of Tols, or the two-state scenario, or the one-state scenario.
Construct ==
    /\ pc = "new"
    /\ \/ \E n \in 1..MaxStates, k \in 0..MaxTotalActions :
          \E owners \in [1..k -> 0..(n - 1)], kinds \in [1..k -> ActionKinds] :
              /\ \A i \in 1..(k - 1) : owners[i] <= owners[i + 1]
              /\ mdp' \in { MakeMDP(n, owners, kinds, g) : g \in Gammas }
              /\ tol' \in Tols
       \/ mdp' = ChainMDP /\ tol' = ChainTol
       \/ mdp' = OneLoopMDP /\ tol' = OneLoopTol
    /\ V' = InitV(mdp')
    /\ V_start' = V'
    /\ V_sweep' = V'
    /\ pc' = "idle"
    /\ UNCHANGED <<state, max_diff, sweeps, calls, ret>>
    /\ UNCHANGED tdVars

\* learn() is called: line 50 is entered, line 53 and line 56 run.
LearnCall ==
    /\ pc \in {"idle", "done"}
    /\ ret.state = None
    /\ calls < 2
    /\ pc' = "sweep"
    /\ state' = 0
    /\ max_diff' = Zero
    /\ sweeps' = 1
    /\ V_start' = V
    /\ V_sweep' = V
    /\ UNCHANGED <<mdp, tol, V, calls, ret>>
    /\ UNCHANGED tdVars

\* One iteration of the for loop, lines 56-78.
LearnState ==
    /\ pc = "sweep"
    /\ state < get_num_states(mdp)
    /\ V' = BackupState(mdp, V, state)
    /\ max_diff' = NewMaxDiff(StateDiff(mdp, V, state), max_diff)
    /\ state' = state + 1
    /\ UNCHANGED <<mdp, tol, pc, sweeps, V_start, V_sweep, calls, ret>>
    /\ UNCHANGED tdVars

\* Lines 80-81: the for loop is over and max_diff < tol, learn returns.
LearnBreak ==
    /\ pc = "sweep"
    /\ state = get_num_states(mdp)
    /\ Converged(max_diff, tol)
    /\ pc' = "done"
    /\ calls' = Min(calls + 1, 2)
    /\ UNCHANGED <<mdp, tol, V, state, max_diff, sweeps, V_start, V_sweep, ret>>
    /\ UNCHANGED tdVars

\* Lines 80, 50-56: the for loop is over and max_diff >= tol (or nan),
\* the while loop goes round.
LearnAgain ==
    /\ pc = "sweep"
    /\ state = get_num_states(mdp)
    /\ ~Converged(max_diff, tol)
    /\ Representable(V)
    /\ state' = 0
    /\ max_diff' = Zero
    /\ sweeps' = Min(sweeps + 1, MaxSweeps)
    /\ V_sweep' = V
    /\ UNCHANGED <<mdp, tol, V, pc, V_start, calls, ret>>
    /\ UNCHANGED tdVars

\* get_action(s), called while learn is not running.
GetAction ==
    /\ pc \in {"idle", "done"}
    /\ ret.state = None
    /\ \E s \in 0..(get_num_states(mdp) - 1) :
       \E flips \in [1..Len(get_allowed_actions(mdp, s)) -> BOOLEAN] :
           LET out == SolverGetAction(mdp, V, s, flips)
           IN  ret' = [state |-> s, action |-> out.action, error |-> out.error]
    /\ UNCHANGED <<mdp, tol, V, pc, state, max_diff, sweeps, V_start, V_sweep,
                   calls>>
    /\ UNCHANGED tdVars

\* The caller takes the action get_action returned.
TakeAction ==
    /\ ret.state # None
    /\ ret' = NoCall
    /\ UNCHANGED <<mdp, tol, V, pc, state, max_diff, sweeps, V_start, V_sweep,
                   calls>>
    /\ UNCHANGED tdVars

Next ==
    Construct \/ LearnCall \/ LearnState \/ LearnBreak \/ LearnAgain \/ GetAction \/ TakeAction

Spec == Init /\ [][Next]_vars

\* learn() is a blocking loop of a single thread: once called it keeps
\* running.  ForLoopStep is what a LearnState step does to the loop variable,
\* and no other step does it; its fairness is the fairness of LearnState.
ForLoopStep ==
    pc = "sweep" /\ state < get_num_states(mdp) /\ state' = state + 1

FairSpec ==
    Spec /\ WF_state(ForLoopStep) /\ WF_vars(LearnBreak) /\ WF_vars(LearnAgain)

(***************************************************************************)
(* The calls on a TdLearner.                                               *)
(***************************************************************************)
Buffer == <<s0, a0, r, s1, a1>>

\* The buffer becomes b.
SetBuffer(b) ==
    s0' = b[1] /\ a0' = b[2] /\ r' = b[3] /\ s1' = b[4] /\ a1' = b[5]

\* TdLearner(task, update, epsilon, alpha), lines 90-116
TdConstruct ==
    /\ td_pc = "new"
    /\ \E t \in Tasks, upd \in Updates, eps \in Epsilons, al \in Alphas :
          LET c == TdConstructQ(t, upd)
          IN  /\ task' = t
              /\ update' = upd
              /\ epsilon' = eps
              /\ alpha' = al
              /\ Q' = c.Q
              /\ attrs' = c.attrs
              /\ prior' = last.op
              /\ td_pc' = IF c.error = NoError THEN "ready" ELSE "failed"
              /\ last' = [NoCallYet EXCEPT !.op = "__init__", !.error = c.error]
    /\ Q_prev' = Q'
    /\ UNCHANGED <<s0, a0, r, s1, a1, asked, buf_prev, passed, n_calls,
                   alternating>>
    /\ UNCHANGED solverVars

\* get_action(s), lines 123-137
TdGetAction ==
    /\ td_pc = "ready"
    /\ n_calls < MaxCalls
    /\ \E s \in 0..(task.num_states - 1) :
       \E out \in TdGetActionOutcomes(task, epsilon, Q, s) :
          /\ last' = [op |-> "get_action", state |-> s, reward |-> NoneF,
                      action |-> out.action, error |-> out.error]
          /\ SetBuffer(IF out.error = NoError
                       THEN ShiftBuffer(Buffer, s, out.action)
                       ELSE Buffer)
          /\ asked' = IF out.error = NoError
                      THEN <<asked[2], <<s, out.action>>>>
                      ELSE asked
          /\ alternating' =
                 (alternating /\ last.op # "get_action" /\ out.error = NoError)
    /\ prior' = last.op
    /\ Q_prev' = Q
    /\ buf_prev' = Buffer
    /\ n_calls' = n_calls + 1
    /\ UNCHANGED <<task, update, epsilon, alpha, Q, td_pc, attrs, passed>>
    /\ UNCHANGED solverVars

\* learn(reward), lines 139-153
TdLearnCall ==
    /\ td_pc = "ready"
    /\ n_calls < MaxCalls
    /\ \E reward \in Rewards :
          LET l == TdLearn(update, task.gamma, alpha, Q, Buffer, reward)
          IN  /\ Q' = l.Q
              /\ SetBuffer(l.buf)
              /\ last' = [op |-> "learn", state |-> None, reward |-> reward,
                          action |-> None, error |-> l.error]
              /\ passed' = IF alternating /\ last.op = "get_action" /\ l.error = NoError
                            THEN <<passed[2], reward>>
                            ELSE <<NoneF, NoneF>>
              /\ alternating' =
                     (alternating /\ last.op = "get_action" /\ l.error = NoError)
    /\ prior' = last.op
    /\ Q_prev' = Q
    /\ buf_prev' = Buffer
    /\ n_calls' = n_calls + 1
    /\ UNCHANGED <<task, update, epsilon, alpha, td_pc, attrs, asked>>
    /\ UNCHANGED solverVars

TdNext == TdConstruct \/ TdGetAction \/ TdLearnCall

SpecTD == Init /\ [][TdNext]_vars

(***************************************************************************)
(* Properties of ValueIterationSolver.                                     *)
(***************************************************************************)
States == 0..(get_num_states(mdp) - 1)
Terminal(s) == Len(get_allowed_actions(mdp, s)) = 0
IsChain == mdp = ChainMDP /\ tol = ChainTol

\* State s has been processed by the sweep in progress or by an earlier one.
Swept(s) ==
    \/ pc = "sweep" /\ (state > s \/ sweeps > 1)
    \/ pc = "done"

\* C1: once a sweep of learn() has processed a state without allowed
\* actions, V of that state is 0, and it is 0 at the end of every later sweep.
C1_TerminalPinned ==
    \A s \in States :
        (Terminal(s) /\ Swept(s) /\ (pc = "sweep" => state > s)) => V[s] = Zero

\* C2: on the two-state scenario (gamma = 0.9, tol = 1e-3) learn() terminates
\* with V[1] = 0 and V[0] = 1.0, where get_action(0) returns action 0.
C2_ChainConverges ==
    (IsChain /\ pc = "sweep")
        ~> (pc = "done" /\ IsChain /\ V[1] = Zero /\ V[0] = One
            /\ \A flips \in [1..1 -> BOOLEAN] :
                   SolverGetAction(mdp, V, 0, flips).action = 0)

C2_Witness == IsChain /\ pc = "sweep" /\ sweeps > 1 /\ V[0] = NINF /\ V[1] = NINF

\* The lookahead values of the actions of s differ.
LookaheadsDiffer(s) ==
    \E a, b \in 0..(Len(get_allowed_actions(mdp, s)) - 1) :
        FLt(Lookahead(mdp, V, s, a), Lookahead(mdp, V, s, b))

\* C5: after learn() has returned, get_action(s) at a state s with allowed
\* actions returns one of them, and none of the others has a strictly greater
\* one-step lookahead value, whatever the coin flips of the tie-break.
C5_GreedyConsistent ==
    (pc = "done" /\ ret.state # None /\ ~Terminal(ret.state)) =>
        /\ ret.action \in 0..(Len(get_allowed_actions(mdp, ret.state)) - 1)
        /\ \A b \in 0..(Len(get_allowed_actions(mdp, ret.state)) - 1) :
               ~FLt(Lookahead(mdp, V, ret.state, ret.action),
                    Lookahead(mdp, V, ret.state, b))

C5_Witness ==
    /\ pc = "done"
    /\ ret.state # None
    /\ LookaheadsDiffer(ret.state)
    /\ ret.action # 0

\* The one-state MDP whose single action loops back with reward 0, gamma < 1.
IsZeroLoop ==
    /\ pc # "new"
    /\ mdp.num_states = 1
    /\ mdp.allowed[0] = <<"stay0">>
    /\ FLt(mdp.gamma, One)

\* C6 as stated: on the one-state zero-reward self-loop with gamma < 1,
\* learn() returns with V[state] = 0.
C6_ZeroValue == (IsZeroLoop /\ pc = "done") => V[0] = Zero

\* C6 as amended: on the one-state zero-reward self-loop with gamma < 1
\* learn() terminates, and it returns with 0 <= V[state] < tol / (1 - gamma),
\* which is 0 when gamma is 0.
C6_SmallValue ==
    /\ [](IsZeroLoop /\ pc = "done" =>
            /\ IsFin(V[0])
            /\ ~FLt(V[0], Zero)
            /\ FLt(FMul(V[0], FSub(One, mdp.gamma)), tol)
            /\ (mdp.gamma = Zero => V[0] = Zero))
    /\ ((IsZeroLoop /\ pc = "sweep") ~> pc = "done")

C6_Witness ==
    IsZeroLoop /\ pc = "done" /\ calls = 1 /\ mdp.gamma = Half /\ V[0] = Rat(1, 16)

\* C7: a learn() call made after a learn() call has returned ends after one
\* sweep: it never begins a second sweep, the max_diff of its sweep is below
\* tol, and it changes no V[s] by tol or more.
C7_Idempotent ==
    /\ (calls >= 1 /\ pc = "sweep") =>
          /\ sweeps = 1
          /\ state = get_num_states(mdp) => Converged(max_diff, tol)
    /\ (calls = 2 /\ pc = "done") =>
          /\ sweeps = 1
          /\ \A s \in States : FLt(FAbs(FSub(V[s], V_start[s])), tol)

C7_Witness == calls = 2 /\ pc = "done" /\ sweeps = 1 /\ V # V_start

\* C8: get_action(s) at a state s without allowed actions fails with an error
\* and returns nothing to the caller.
C8_TerminalRaises ==
    (ret.state # None /\ Terminal(ret.state)) => ret.error # NoError

\* The absolute change of V[s] since the sweep in progress began.
SweepChange(s) == FAbs(FSub(V_sweep[s], V[s]))

\* C13: a sweep visits the states 0..num_states-1 once each in increasing
\* order, changing V at the visited state only; learn() returns only at the
\* end of a sweep, and it does so when the max_diff of that sweep, the largest
\* absolute change of a V[s] in it, is below tol, and begins another sweep
\* when it is not.
C13_StoppingRule ==
    [][ /\ (pc # "sweep" /\ pc' = "sweep") => (state' = 0 /\ V' = V)
        /\ (pc = "sweep" /\ pc' = "sweep" /\ state' > state) =>
              /\ state' = state + 1
              /\ state < get_num_states(mdp)
              /\ \A t \in States \ {state} : V'[t] = V[t]
        /\ (pc = "sweep" /\ pc' = "sweep" /\ state' < state) =>
              /\ state = get_num_states(mdp) /\ state' = 0
              /\ V' = V
              /\ ~FLt(max_diff, tol)
              /\ \E s \in States : ~FLt(SweepChange(s), tol)
        /\ (pc = "sweep" /\ state' = state) => V' = V
        /\ (pc = "sweep" /\ pc' # "sweep") =>
              /\ pc' = "done"
              /\ state = get_num_states(mdp)
              /\ V' = V
              /\ FLt(max_diff, tol)
              /\ \A s \in States : FLt(SweepChange(s), tol)
      ]_vars

C13_Witness ==
    /\ pc = "done" /\ calls = 1 /\ sweeps >= 2
    /\ get_num_states(mdp) >= 2
    /\ \E s \in States : V[s] # V_sweep[s]

\* sum over the first k entries (ns, prob) of the distribution of (s, a) of
\* prob * (reward(s, a, ns) + gamma * Vv[ns])
RECURSIVE BellmanSum(_, _, _, _)
BellmanSum(Vv, s, a, k) ==
    IF k = 0 THEN Zero
    ELSE LET e == next_state_distribution(mdp, s, a)[k]
         IN  FAdd(BellmanSum(Vv, s, a, k - 1),
                  FMul(e[2], FAdd(get_reward(mdp, s, a, e[1]),
                                  FMul(mdp.gamma, Vv[e[1]]))))

\* The Bellman backup value of action a at state s under the table Vv.
BellmanValue(Vv, s, a) ==
    BellmanSum(Vv, s, a, Len(next_state_distribution(mdp, s, a)))

\* The greatest Bellman backup value of an action of s under Vv (-inf when
\* none is a number).
BellmanMax(Vv, s) ==
    LET vals == { BellmanValue(Vv, s, a) :
                      a \in 0..(Len(get_allowed_actions(mdp, s)) - 1) }
        nums == { v \in vals : v.k # "nan" }
    IN  IF nums = {} THEN NINF
        ELSE CHOOSE v \in nums : \A w \in nums : ~FLt(v, w)

\* What the backup of s reads in an in-place sweep: the values written in this
\* sweep at the states before s, the values of the sweep before elsewhere.
InPlaceView(s) == [t \in States |-> IF t < s THEN V[t] ELSE V_sweep[t]]

\* C14: during a sweep, the V[s] of a state s with allowed actions that the
\* sweep has visited is the greatest Bellman backup value of its actions, read
\* from the values this sweep has written at the states before s and from the
\* values of the sweep before at s and after it.
C14_InPlaceSweep ==
    pc = "sweep" =>
        \A s \in States :
            (s < state /\ ~Terminal(s)) => V[s] = BellmanMax(InPlaceView(s), s)

\* An in-place sweep has given a state another value than a synchronous
\* sweep would have.
C14_Witness ==
    /\ pc = "sweep"
    /\ \E s \in States :
          /\ s < state /\ ~Terminal(s)
          /\ IsFin(V[s]) /\ IsFin(BellmanMax(V_sweep, s))
          /\ V[s] # BellmanMax(V_sweep, s)

\* C15: after learn() has returned, get_action(s) at a state s with allowed
\* actions returns an action whose Bellman backup value, sum of
\* prob * (reward + gamma * V[ns]), no other allowed action of s exceeds.
C15_GreedyForBackup ==
    (pc = "done" /\ ret.state # None /\ ~Terminal(ret.state)) =>
        \A b \in 0..(Len(get_allowed_actions(mdp, ret.state)) - 1) :
            ~FLt(BellmanValue(V, ret.state, ret.action),
                 BellmanValue(V, ret.state, b))

\* The one-state MDP whose single action loops back with reward 1, gamma = 1.
IsOneLoop ==
    /\ pc # "new"
    /\ mdp.num_states = 1
    /\ mdp.allowed[0] = <<"stay1">>
    /\ mdp.gamma = One

\* C17: on the one-state MDP whose only action loops back with reward 1, with
\* gamma = 1 and tol <= 1, learn() never returns: every sweep raises V[0] by
\* 1, so its max_diff is 1 and the while loop goes round.
C17_NeverReturns ==
    (IsOneLoop /\ ~FLt(One, tol)) =>
        /\ pc # "done"
        /\ (pc = "sweep" /\ state = 1) =>
              /\ V[0] = FAdd(V_sweep[0], One)
              /\ max_diff = One
              /\ ~Converged(max_diff, tol)

C17_Witness ==
    /\ IsOneLoop /\ tol = One
    /\ pc = "sweep" /\ state = 1 /\ sweeps >= 3 /\ V[0] = Rat(4, 1)

\* An MDP with gamma < 1 in which every state has an allowed action (its
\* rewards are 0 or 1, its next-state probabilities sum to 1 and tol > 0).
Contracting ==
    /\ pc # "new"
    /\ FLt(mdp.gamma, One)
    /\ FLt(Zero, tol)
    /\ \A s \in States : ~Terminal(s)

\* C18: on an MDP with gamma < 1 and no terminal state a learn() call
\* eventually returns, and when it has returned every V[s] is a finite
\* number.
C18_ContractingTerminates ==
    /\ []((Contracting /\ pc = "done") => \A s \in States : IsFin(V[s]))
    /\ ((Contracting /\ pc = "sweep") ~> pc = "done")

C18_Witness ==
    /\ Contracting /\ pc = "done" /\ calls = 1
    /\ get_num_states(mdp) = 2
    /\ sweeps >= 3
    /\ mdp.gamma = Half

(***************************************************************************)
(* Properties of TdLearner.                                                *)
(***************************************************************************)
\* The last call was a learn call that returned.
LearnReturned == last.op = "learn" /\ last.error = NoError

\* The last call was a learn call that returned and that found a previous
\* state in the buffer: it applied an update.
UpdateApplied == LearnReturned /\ buf_prev[1] # None

\* The largest value of a non-empty row.
RowMax(row) ==
    CHOOSE v \in { row[i] : i \in 1..Len(row) } :
        \A j \in 1..Len(row) : ~FLt(v, row[j])

\* old + alpha * (rw + gamma * target - old)
Backed(old, rw, target) ==
    FAdd(old, FMul(alpha, FSub(FAdd(rw, FMul(task.gamma, target)), old)))

\* Table Qv with entry [s][a] replaced by v.
WithEntry(Qv, s, a, v) == [Qv EXCEPT ![s][a + 1] = v]

\* C3: in a run of alternating get_action(s_k), learn(r_k) calls that all
\* return, the first learn call leaves Q as it was, and learn(r_k) for k >= 1
\* changes Q to Q with Q[s_{k-1}][a_{k-1}] backed up with the reward r_{k-1}
\* of the learn call before it, which is not the table that r_k would give
\* when r_k differs from r_{k-1} and alpha is not 0.  In every case learn
\* stores its argument in r, and a learn call that raises changes nothing.
C3_RewardLag ==
    /\ (LearnReturned /\ alternating /\ asked[1] = NoAsk) =>
          Q = Q_prev /\ r = last.reward
    /\ (LearnReturned /\ alternating /\ asked[1] # NoAsk) =>
          LET s == asked[1][1]
              a == asked[1][2]
              target ==
                  IF update = "sarsa" THEN Q_prev[asked[2][1]][asked[2][2] + 1]
                  ELSE RowMax(Q_prev[asked[2][1]])
              lagged == Backed(Q_prev[s][a + 1], passed[1], target)
              current == Backed(Q_prev[s][a + 1], passed[2], target)
          IN  /\ passed[2] = last.reward
              /\ Q = WithEntry(Q_prev, s, a, lagged)
              /\ (passed[1] # passed[2] /\ alpha # Zero) =>
                     Q # WithEntry(Q_prev, s, a, current)
              /\ r = last.reward
    /\ (last.op = "learn" /\ last.error # NoError) =>
          Q = Q_prev /\ Buffer = buf_prev

C3_Witness ==
    /\ LearnReturned /\ alternating /\ asked[1] # NoAsk
    /\ passed[1] # passed[2]
    /\ Q # Q_prev

\* What the update of the last learn call made of Q[s0][a0] under rule upd.
ResultUnder(upd) ==
    TdLearn(upd, task.gamma, alpha, Q_prev, buf_prev, last.reward)
        .Q[buf_prev[1]][buf_prev[2] + 1]

\* The action a1 of the buffer is an index of the row of s1.
BothRulesApply == buf_prev[5] < Len(Q_prev[buf_prev[4]])

\* Q[s1][a1] differs from max(Q[s1]).
OffGreedy ==
    Q_prev[buf_prev[4]][buf_prev[5] + 1] # RowMax(Q_prev[buf_prev[4]])

\* The new Q[s0][a0] is Q[s0][a0] + alpha * (r + gamma * Q[s1][t] - Q[s0][a0])
\* with t = a1 under sarsa and t an argmax of Q[s1] under q_learning.
BackedUpWithRuleTarget ==
    UpdateApplied =>
        LET old == Q_prev[buf_prev[1]][buf_prev[2] + 1]
            target ==
                IF update = "sarsa" THEN Q_prev[buf_prev[4]][buf_prev[5] + 1]
                ELSE RowMax(Q_prev[buf_prev[4]])
        IN  /\ update = "sarsa" => BothRulesApply
            /\ Q[buf_prev[1]][buf_prev[2] + 1] = Backed(old, buf_prev[3], target)

\* C4 as stated: a learn call that applies an update backs Q[s0][a0] up with
\* the target Q[s1][a1] under sarsa and max(Q[s1]) under q_learning, and on
\* the same transition the two rules give different Q[s0][a0] exactly when
\* Q[s1][a1] differs from max(Q[s1]).
C4_RulesDifferIffOffGreedy ==
    /\ BackedUpWithRuleTarget
    /\ (UpdateApplied /\ BothRulesApply) =>
           ((ResultUnder("sarsa") # ResultUnder("q_learning")) <=> OffGreedy)

\* C4 as amended: a learn call that applies an update backs Q[s0][a0] up with
\* the target Q[s1][a1] under sarsa and max(Q[s1]) under q_learning, and on
\* the same transition the two rules give different Q[s0][a0] exactly when
\* Q[s1][a1] differs from max(Q[s1]) and neither alpha nor gamma is 0.
C4_BootstrapTarget ==
    /\ BackedUpWithRuleTarget
    /\ (UpdateApplied /\ BothRulesApply) =>
           ((ResultUnder("sarsa") # ResultUnder("q_learning"))
               <=> (OffGreedy /\ alpha # Zero /\ task.gamma # Zero))

C4_Witness ==
    /\ UpdateApplied /\ BothRulesApply
    /\ update = "sarsa"
    /\ OffGreedy
    /\ ResultUnder("sarsa") # ResultUnder("q_learning")
    /\ Q # Q_prev

\* C9: the constructor called with an update rule other than q_learning and
\* sarsa raises NotImplementedError having assigned neither Q nor a slot of
\* the buffer (nor update), and the instance is never used; with q_learning
\* or sarsa it does not raise NotImplementedError; and no learn call raises
\* NotImplementedError.
C9_UnsupportedRuleRejected ==
    /\ (td_pc # "new" /\ update \notin {"q_learning", "sarsa"}) =>
          /\ td_pc = "failed"
          /\ last = [NoCallYet EXCEPT !.op = "__init__",
                                      !.error = "NotImplementedError"]
          /\ attrs \cap {"update", "Q", "s0", "a0", "r", "s1", "a1"} = {}
          /\ Q = << >>
          /\ n_calls = 0
    /\ (td_pc # "new" /\ update \in {"q_learning", "sarsa"}) =>
          /\ last.error # "NotImplementedError"
          /\ td_pc = "failed" => last.error = "TypeError"
    /\ last.op = "learn" => last.error # "NotImplementedError"

C9_Witness ==
    /\ td_pc = "failed"
    /\ update = "expected_sarsa"
    /\ task.kind = "count"
    /\ last.error = "NotImplementedError"

\* C10: a constructed TdLearner has, after the constructor and after every
\* get_action and learn call, one row of Q per state of the task, the row of s
\* as long as the number of actions allowed at s; right after the constructor
\* every entry is 1.
C10_TableShape ==
    td_pc = "ready" =>
        /\ DOMAIN Q = 0..(task.num_states - 1)
        /\ \A s \in DOMAIN Q : Len(Q[s]) = task.counts[s]
        /\ last.op = "__init__" =>
               \A s \in DOMAIN Q : \A a \in 1..Len(Q[s]) : Q[s][a] = One

C10_Witness ==
    /\ td_pc = "ready"
    /\ last.op = "learn"
    /\ Q # Q_prev
    /\ \E s \in DOMAIN Q : Len(Q[s]) # task.num_actions

\* The last two calls were learn calls that returned, and they found a
\* previous state in the buffer: both applied an update.
LearnRepeated == UpdateApplied /\ prior = "learn" /\ buf_prev[3] # NoneF

\* C11 as stated: a learn call that follows a learn call that applied an
\* update, with no get_action between them, leaves Q as it was.
C11_SecondLearnKeepsQ ==
    (LearnRepeated /\ last.op = "learn" /\ last.error = NoError) => Q = Q_prev

\* C11 as amended: learn leaves the buffer slots s0, a0, s1, a1 as they were,
\* so a learn call that follows a learn call, with no get_action between them,
\* backs the same Q[s0][a0] up again, towards the same target and with the
\* reward passed to the learn call before it.
C11_SecondLearnUpdatesAgain ==
    LearnRepeated =>
        LET s == buf_prev[1]
            a == buf_prev[2]
            target ==
                IF update = "sarsa" THEN Q_prev[buf_prev[4]][buf_prev[5] + 1]
                ELSE RowMax(Q_prev[buf_prev[4]])
        IN  /\ <<s0, a0, s1, a1>> =
                   <<buf_prev[1], buf_prev[2], buf_prev[4], buf_prev[5]>>
            /\ <<s0, a0>> = asked[1] /\ <<s1, a1>> = asked[2]
            /\ Len(Q_prev[buf_prev[4]]) > 0
            /\ Q = WithEntry(Q_prev, s, a,
                             Backed(Q_prev[s][a + 1], buf_prev[3], target))

C11_Witness == LearnRepeated /\ Q # Q_prev /\ n_calls = 5

\* C12: a get_action(state) call that returns action leaves (s1, a1) of
\* before the call in (s0, a0) and (state, action) in (s1, a1), and changes
\* neither r nor Q.
C12_BufferShift ==
    (last.op = "get_action" /\ last.error = NoError) =>
        /\ s0 = buf_prev[4] /\ a0 = buf_prev[5]
        /\ s1 = last.state /\ a1 = last.action
        /\ <<s0, a0>> = asked[1] /\ <<s1, a1>> = asked[2]
        /\ r = buf_prev[3]
        /\ Q = Q_prev

C12_Witness ==
    /\ last.op = "get_action" /\ last.error = NoError
    /\ buf_prev[4] # None
    /\ <<s0, a0>> # <<s1, a1>>
    /\ r # NoneF

\* The last call was a get_action call that returned, of a learner that does
\* not explore.
GreedyReturned ==
    last.op = "get_action" /\ last.error = NoError /\ epsilon = Zero

\* No update has changed the table.
FreshTable == \A s \in DOMAIN Q_prev : \A a \in 1..Len(Q_prev[s]) : Q_prev[s][a] = One

\* C16: with epsilon = 0, get_action(state) at a state with actions returns
\* the smallest index i with Q[state][i] == max(Q[state]), whatever the calls
\* before it; on a fresh learner that is index 0.
C16_FirstIndexOnTie ==
    GreedyReturned =>
        LET row == Q_prev[last.state]
        IN  /\ last.action \in 0..(Len(row) - 1)
            /\ row[last.action + 1] = RowMax(row)
            /\ \A i \in 1..last.action : row[i] # RowMax(row)
            /\ FreshTable => last.action = 0

C16_Witness ==
    /\ GreedyReturned
    /\ ~FreshTable
    /\ last.action = 0
    /\ \E i \in 2..Len(Q_prev[last.state]) :
           Q_prev[last.state][i] = RowMax(Q_prev[last.state])

\* C19: get_action(s) at a state s with allowed actions returns an index of
\* the row Q[s], the actions allowed at s, and no learn call finds the entry
\* Q[s0][a0] or Q[s1][a1] it reads or writes missing.
C19_ActionsAllowed ==
    /\ (last.op = "get_action" /\ last.error = NoError
            /\ task.counts[last.state] > 0) =>
           last.action \in 0..(Len(Q[last.state]) - 1)
    /\ last.op = "learn" => last.error # "IndexError"

\* C20: a learn(reward) call leaves s0, a0, s1 and a1 as they were and every
\* entry of Q other than Q[s0][a0]; it leaves all of Q when s0 is None; when
\* it returns r is reward, and when it raises r and Q are as they were.
C20_LearnFrame ==
    last.op = "learn" =>
        /\ <<s0, a0, s1, a1>> =
               <<buf_prev[1], buf_prev[2], buf_prev[4], buf_prev[5]>>
        /\ DOMAIN Q = DOMAIN Q_prev
        /\ \A s \in DOMAIN Q :
               /\ Len(Q[s]) = Len(Q_prev[s])
               /\ \A a \in 1..Len(Q[s]) :
                      <<s, a - 1>> # <<buf_prev[1], buf_prev[2]>> =>
                          Q[s][a] = Q_prev[s][a]
        /\ buf_prev[1] = None => Q = Q_prev
        /\ last.error = NoError => r = last.reward
        /\ last.error # NoError => (r = buf_prev[3] /\ Q = Q_prev)

C20_Witness ==
    /\ UpdateApplied
    /\ Q # Q_prev
    /\ r # buf_prev[3]
    /\ <<s0, a0>> # <<s1, a1>>
    /\ Cardinality({ <<s, a>> \in (DOMAIN Q) \X (1..MaxTdActions) :
                         a <= Len(Q[s]) }) >= 3

====
